---------------------------- MODULE Spec2Model ----------------------------
(***************************************************************************)
(* Model of the feeder firmware's presence-detection and actuation core:   *)
(*   - the BLE scan lifecycle state machine (app_beacon.c),                *)
(*   - the advertisement filter, RSSI moving average and debounce logic    *)
(*     of app_beacon__ble_gap_cb (app_beacon.c),                           *)
(*   - the loss-check task app_beacon__beacon_check_task (app_beacon.c),   *)
(*   - the lid PWM driver and its power-saving task (app_pwm.c),           *)
(*   - the boot sequence of app_main (main.c).                             *)
(*                                                                         *)
(* Scheduling model: the GAP callback runs in the Bluetooth host task,     *)
(* whose priority is above that of the loss-check task (priority 10), so   *)
(* a callback is one atomic step that may run between any two statements   *)
(* of the loss-check task.  The task's read-modify-write of                *)
(* beacon.times_seen is split in its load and its store.                   *)
(*                                                                         *)
(* Floating point: rssi_moving_avg_result is a float holding a sum of 8    *)
(* small integers divided by 8, and sums/differences of such values with   *)
(* 2; all of them are exact multiples of 1/8.  The model keeps the value   *)
(* multiplied by 8 as an integer (suffix 8).                               *)
(***************************************************************************)
EXTENDS Integers, Sequences, FiniteSets, TLC

VARIABLES
    boot,                           \* position of app_main: "nvs", "pwm", "beacon", "done", "restart"
    scan_status,                    \* static ble_scan_status_t scan_status
    inflight,                       \* hardware commands whose completion event is outstanding (FIFO)
    hw_scanning,                    \* the controller is scanning (advertisements are reported)
    beacon,                         \* static beacon_t beacon: [auth_mac, found, times_seen]
    rssi_moving_avg_samples,        \* int[8], indexed 0..7
    rssi_moving_avg_samples_index,  \* uint8_t
    rssi_moving_avg_ready,          \* uint8_t flag
    rssi_moving_avg_result_prev8,   \* float rssi_moving_avg_result_prev, times 8
    beacon_battery_low,             \* app_status.beacon_battery_low
    check_pc,                       \* position of app_beacon__beacon_check_task
    time_to_wait_before_check,      \* local of the loss-check task
    beacon_times_seen_prev,         \* local of the loss-check task
    times_seen_reg,                 \* register holding beacon.times_seen during times_seen--
    pwm,                            \* lid driver: [duty, timer_running, pause_pc, wait_ms, age_ms]
    last_req,                       \* history: last request made on an initialized scanner
    hist,                           \* history: the last request as made, bring-ups since boot,
                                    \*          whether app_beacon__set_auth_mac has been called
    failed,                         \* history: some hardware call or completion has failed
    seen_since_reset,               \* history: qualifying sightings since the counter was last 0
    cycle,                          \* history: what the current loss-check cycle observed
    decay,                          \* history: the loss-check cycles since Present with counter 4
    n_adv,                          \* history: number of scan results delivered so far
    recent_rssi,                    \* history: the signal strengths last accepted, newest last
    ev                              \* history: the last handler that ran and what it did

vars == <<boot, scan_status, inflight, hw_scanning, beacon,
          rssi_moving_avg_samples, rssi_moving_avg_samples_index,
          rssi_moving_avg_ready, rssi_moving_avg_result_prev8,
          beacon_battery_low, check_pc, time_to_wait_before_check,
          beacon_times_seen_prev, times_seen_reg, pwm, last_req, hist, failed,
          seen_since_reset, cycle, decay, n_adv, recent_rssi, ev>>

scanVars == <<scan_status, inflight, hw_scanning>>
smootherVars == <<rssi_moving_avg_samples, rssi_moving_avg_samples_index,
                  rssi_moving_avg_ready, rssi_moving_avg_result_prev8>>
taskVars == <<check_pc, time_to_wait_before_check, beacon_times_seen_prev,
              times_seen_reg, cycle, decay>>

----------------------------------------------------------------------------
(* Bounds of the model *)

MaxInflight == 2        \* external requests stop once this many completions are outstanding
MaxAdvFilter == 8       \* scan results delivered in SpecFilter
MaxAdvSmooth == 9       \* scan results delivered in SpecSmooth
MaxAdvPresence == 13    \* scan results delivered in SpecPresence
MaxAdvIdent == 10       \* scan results delivered in SpecIdent
SeenCap == 3            \* the history counter seen_since_reset saturates here
BringUpCap == 2         \* the history counters of hist saturate here

----------------------------------------------------------------------------
(* Program constants *)

RSSI_MOVING_AVG_NUM_OF_SAMPLES == 8
MIN_RSSI_FOR_DETECTION_DBM == -48
MIN_TIMES_SEEN_FOR_DETECTION == 3
TIME_BEFORE_BEACON_LOST_CHECK_INIT_VAL_MS == 1000
TIME_BEFORE_BEACON_LOST_CHECK_DECREMENT_MS == 500
MAX_TIMES_SEEN == 4
MAX_RSSI_STEP == 2
TIME_SHRINK_FLOOR_MS == 750
BEACON_BAT_LOW_MV == 3000
PWM_DUTY_MIN == 26214
PWM_DUTY_MAX == 78000
PWM_DUTY_INIT == 0
PWM_TIMER_TIME_TO_PAUSE_MS == 500
ESP_BD_ADDR_LEN == 6

ble_scan_uninit == "ble_scan_uninit"
ble_scan_initialing == "ble_scan_initialing"
ble_scan_off == "ble_scan_off"
ble_scan_starting == "ble_scan_starting"
ble_scan_on == "ble_scan_on"
ble_scan_stopping == "ble_scan_stopping"
ble_scan_start_pending == "ble_scan_start_pending"
ble_scan_stop_pending == "ble_scan_stop_pending"

ble_scan_status_t ==
    {ble_scan_uninit, ble_scan_initialing, ble_scan_off, ble_scan_starting,
     ble_scan_on, ble_scan_stopping, ble_scan_start_pending, ble_scan_stop_pending}

ESP_OK == "ESP_OK"
ESP_FAIL == "ESP_FAIL"

\* Eddystone-TLM header compared by the callback: ble_adv[0..11]
EddystoneTlmHeader == <<2, 1, 6, 3, 3, 170, 254, 17, 22, 170, 254, 32>>

----------------------------------------------------------------------------
(* History record of the last handler *)

NoRec == [search_evt |-> "none", bda |-> <<>>, ble_adv |-> <<>>, rssi |-> 0]

NoEv == [op |-> "none", ok |-> TRUE, issued |-> <<>>, outstanding |-> 0, rec |-> NoRec,
         accepted |-> FALSE, produced |-> FALSE, qualifying |-> FALSE,
         opens |-> 0, closes |-> 0, was_found |-> 0, was_seen |-> 0,
         was_ready |-> 0, was_prev8 |-> 0, was_status |-> ble_scan_uninit,
         was_duty |-> 0, err |-> ESP_OK, mean8 |-> 0, result8 |-> 0,
         fail_at |-> "none"]

\* no request made yet, app_beacon__init has not run since the process started
NoHist == [call_op |-> "none", call_status |-> ble_scan_uninit, call_outstanding |-> 0,
           bringups |-> 0, tasks |-> 0, mac_set |-> FALSE]

\* same, stored: what the cycle found and stored; fed: a qualifying sighting arrived
\* during the wait of the cycle; starved: some wait so far ended without one
NoCycle == [same |-> FALSE, stored |-> -1, fed |-> FALSE, starved |-> FALSE]

\* no run of loss-check cycles is being followed
NoDecay == [active |-> FALSE, stores |-> <<>>, closes |-> 0]

----------------------------------------------------------------------------
(* Lid driver, app_pwm.c *)

\* vTaskResume(app_pwm__pwm_timer_pause_task_handle): acts on a suspended task only
ResumePauseTask(pc) == IF pc = "suspended" THEN "delay" ELSE pc

\* ledc_set_duty + ledc_update_duty + ledc_timer_resume + vTaskResume.
\* wait_ms is what is left of the power-saving task's vTaskDelay: a task resumed from
\* its vTaskSuspend goes on to vTaskDelay(500 ms), a task that is not suspended is
\* left alone.  age_ms (history) is the time since the most recent call, up to 500 ms.
PwmSetDuty(p, d) ==
    [duty |-> d, timer_running |-> TRUE, pause_pc |-> ResumePauseTask(p.pause_pc),
     wait_ms |-> IF p.pause_pc = "suspended" THEN PWM_TIMER_TIME_TO_PAUSE_MS
                                             ELSE p.wait_ms,
     age_ms |-> 0]

app_pwm__set_duty_min(p) == PwmSetDuty(p, PWM_DUTY_MIN)

\* mutant: open() on an open lid drives it closed
SetDutyMax_Toggles(p) ==
    PwmSetDuty(p, IF p.duty = PWM_DUTY_MAX THEN PWM_DUTY_MIN ELSE PWM_DUTY_MAX)

app_pwm__set_duty_max(p) == PwmSetDuty(p, PWM_DUTY_MAX)

\* app_pwm__init: timer paused, pause task created (it suspends itself), lid closed
app_pwm__init(p) ==
    app_pwm__set_duty_min([duty |-> p.duty, timer_running |-> FALSE,
                           pause_pc |-> "suspended", wait_ms |-> 0, age_ms |-> 0])

----------------------------------------------------------------------------
(* Scan lifecycle, app_beacon.c *)

\* Result of a call that may issue hardware commands
Call(st, err, issued, queued, task) ==
    [status |-> st, err |-> err, issued |-> issued, queued |-> queued, task |-> task]

\* app_beacon__init; out is the outcome of the bring-up calls:
\*   "ok"           every call succeeds,
\*   "bringup_fail" a call before esp_ble_gap_set_scan_params fails, or that call fails,
\*   "task_fail"    the parameters are set and xTaskCreate fails.
app_beacon__init(st, out) ==
    IF st # ble_scan_uninit
    THEN Call(st, ESP_OK, <<>>, <<>>, FALSE)
    ELSE CASE out = "ok" ->
                Call(ble_scan_initialing, ESP_OK, <<"param_set">>, <<"param_set">>, TRUE)
           [] out = "task_fail" ->
                Call(ble_scan_initialing, ESP_FAIL, <<"param_set">>, <<"param_set">>, FALSE)
           [] OTHER ->
                Call(ble_scan_initialing, ESP_FAIL, <<>>, <<>>, FALSE)

\* mutant: a start requested while a stop is pending is ignored
ScanStart_KeepsStopPending(st, out, hw_ok) ==
    IF st = ble_scan_uninit THEN app_beacon__init(st, out)
    ELSE IF st = ble_scan_off
    THEN Call(ble_scan_starting, IF hw_ok THEN ESP_OK ELSE ESP_FAIL,
              <<"start">>, IF hw_ok THEN <<"start">> ELSE <<>>, FALSE)
    ELSE IF st = ble_scan_stopping
    THEN Call(ble_scan_start_pending, ESP_OK, <<>>, <<>>, FALSE)
    ELSE Call(st, ESP_OK, <<>>, <<>>, FALSE)

\* mutant: a start requested while a stop is pending is sent to the hardware at once
ScanStart_PendingStopStarts(st, out, hw_ok) ==
    IF st = ble_scan_uninit THEN app_beacon__init(st, out)
    ELSE IF st \in {ble_scan_off, ble_scan_stop_pending}
    THEN Call(ble_scan_starting, IF hw_ok THEN ESP_OK ELSE ESP_FAIL,
              <<"start">>, IF hw_ok THEN <<"start">> ELSE <<>>, FALSE)
    ELSE IF st = ble_scan_stopping
    THEN Call(ble_scan_start_pending, ESP_OK, <<>>, <<>>, FALSE)
    ELSE Call(st, ESP_OK, <<>>, <<>>, FALSE)

\* app_beacon__ble_scan_start; hw_ok: esp_ble_gap_start_scanning returns ESP_OK
app_beacon__ble_scan_start(st, out, hw_ok) ==
    IF st = ble_scan_uninit THEN app_beacon__init(st, out)
    ELSE IF st = ble_scan_off
    THEN Call(ble_scan_starting, IF hw_ok THEN ESP_OK ELSE ESP_FAIL,
              <<"start">>, IF hw_ok THEN <<"start">> ELSE <<>>, FALSE)
    ELSE IF st = ble_scan_stopping
    THEN Call(ble_scan_start_pending, ESP_OK, <<>>, <<>>, FALSE)
    ELSE IF st = ble_scan_stop_pending
    THEN Call(ble_scan_off, ESP_OK, <<>>, <<>>, FALSE)
    ELSE Call(st, ESP_OK, <<>>, <<>>, FALSE)

\* mutant: a stop requested while starting is sent to the hardware at once
ScanStop_NoPending(st, hw_ok) ==
    IF st = ble_scan_uninit THEN Call(st, ESP_OK, <<>>, <<>>, FALSE)
    ELSE IF st \in {ble_scan_on, ble_scan_starting}
    THEN Call(ble_scan_stopping, IF hw_ok THEN ESP_OK ELSE ESP_FAIL,
              <<"stop">>, IF hw_ok THEN <<"stop">> ELSE <<>>, FALSE)
    ELSE IF st = ble_scan_initialing
    THEN Call(ble_scan_stop_pending, ESP_OK, <<>>, <<>>, FALSE)
    ELSE Call(st, ESP_OK, <<>>, <<>>, FALSE)

\* mutant: a stop requested while a start is pending withdraws the pending start
ScanStop_CancelsStartPending(st, hw_ok) ==
    IF st = ble_scan_uninit THEN Call(st, ESP_OK, <<>>, <<>>, FALSE)
    ELSE IF st = ble_scan_on
    THEN Call(ble_scan_stopping, IF hw_ok THEN ESP_OK ELSE ESP_FAIL,
              <<"stop">>, IF hw_ok THEN <<"stop">> ELSE <<>>, FALSE)
    ELSE IF st \in {ble_scan_starting, ble_scan_initialing}
    THEN Call(ble_scan_stop_pending, ESP_OK, <<>>, <<>>, FALSE)
    ELSE IF st = ble_scan_start_pending
    THEN Call(ble_scan_stopping, ESP_OK, <<>>, <<>>, FALSE)
    ELSE Call(st, ESP_OK, <<>>, <<>>, FALSE)

\* app_beacon__ble_scan_stop; hw_ok: esp_ble_gap_stop_scanning returns ESP_OK
app_beacon__ble_scan_stop(st, hw_ok) ==
    IF st = ble_scan_uninit THEN Call(st, ESP_OK, <<>>, <<>>, FALSE)
    ELSE IF st = ble_scan_on
    THEN Call(ble_scan_stopping, IF hw_ok THEN ESP_OK ELSE ESP_FAIL,
              <<"stop">>, IF hw_ok THEN <<"stop">> ELSE <<>>, FALSE)
    ELSE IF st \in {ble_scan_starting, ble_scan_initialing}
    THEN Call(ble_scan_stop_pending, ESP_OK, <<>>, <<>>, FALSE)
    ELSE Call(st, ESP_OK, <<>>, <<>>, FALSE)

\* xTaskCreate(app_beacon__beacon_check_task): the new task runs up to its first
\* vTaskSuspend(NULL) with time_to_wait_before_check at its initial value
CreateCheckTask(created) == IF created THEN "susp_init" ELSE check_pc

ScanEv(op, ok, c, left) ==
    [NoEv EXCEPT !.op = op, !.ok = ok, !.issued = c.issued, !.outstanding = left,
                 !.was_status = scan_status, !.err = c.err]

\* history: st is the status a call of app_beacon__init finds (only Uninit lets it
\* past its guard, into the controller and stack bring-up), c is what the call did
CountBringUp(h, st, c) ==
    [h EXCEPT !.bringups = IF st = ble_scan_uninit /\ @ < BringUpCap THEN @ + 1 ELSE @,
              !.tasks = IF c.task /\ @ < BringUpCap THEN @ + 1 ELSE @]

\* history: the request being made, the status it finds and the completions outstanding
RecordCall(h, op) ==
    [h EXCEPT !.call_op = op, !.call_status = scan_status,
              !.call_outstanding = Len(inflight)]

----------------------------------------------------------------------------
Init ==
    /\ boot = "nvs"
    /\ scan_status = ble_scan_uninit
    /\ inflight = <<>>
    /\ hw_scanning = FALSE
    /\ beacon = [auth_mac |-> <<0, 0, 0, 0, 0, 0>>, found |-> 0, times_seen |-> 0]
    /\ rssi_moving_avg_samples = [i \in 0..(RSSI_MOVING_AVG_NUM_OF_SAMPLES - 1) |-> 0]
    /\ rssi_moving_avg_samples_index = 0
    /\ rssi_moving_avg_ready = 0
    /\ rssi_moving_avg_result_prev8 = 0
    /\ beacon_battery_low = 0
    /\ check_pc = "none"
    /\ time_to_wait_before_check = TIME_BEFORE_BEACON_LOST_CHECK_INIT_VAL_MS
    /\ beacon_times_seen_prev = 0
    /\ times_seen_reg = 0
    /\ pwm = [duty |-> PWM_DUTY_INIT, timer_running |-> FALSE, pause_pc |-> "none",
              wait_ms |-> 0, age_ms |-> 0]
    /\ last_req = "none"
    /\ hist = NoHist
    /\ failed = FALSE
    /\ seen_since_reset = 0
    /\ cycle = NoCycle
    /\ decay = NoDecay
    /\ n_adv = 0
    /\ recent_rssi = <<>>
    /\ ev = NoEv

----------------------------------------------------------------------------
(* Boot, main.c *)

\* mutant: a new identifier also forgets the sightings of the old one
SetAuthMac_ForgetsSightings(b, mac_addr) ==
    [auth_mac |-> [i \in 1..ESP_BD_ADDR_LEN |-> mac_addr[i]], found |-> 0, times_seen |-> 0]

\* app_beacon__set_auth_mac: memcpy(beacon.auth_mac, mac_addr, ESP_BD_ADDR_LEN)
app_beacon__set_auth_mac(b, mac_addr) ==
    [b EXCEPT !.auth_mac = [i \in 1..ESP_BD_ADDR_LEN |-> mac_addr[i]]]

\* app_main: err = app_nvs__get_data(); stored is the persisted identifier, or <<>>
\* when none was written yet (ESP_ERR_NOT_FOUND, which boot tolerates)
MainNvsGetData(stored) ==
    /\ boot = "nvs"
    /\ boot' = "pwm"
    /\ beacon' = IF stored = <<>> THEN beacon ELSE app_beacon__set_auth_mac(beacon, stored)
    /\ hist' = [hist EXCEPT !.mac_set = @ \/ stored # <<>>]
    /\ ev' = [NoEv EXCEPT !.op = "app_nvs__get_data"]
    /\ UNCHANGED <<scanVars, smootherVars, beacon_battery_low, taskVars, pwm,
                   last_req, failed, seen_since_reset, n_adv, recent_rssi>>

\* app_nvs__set_authorized_mac, called by the configuration page at run time
NvsSetAuthorizedMac(mac_addr) ==
    /\ boot = "done"
    /\ beacon' = app_beacon__set_auth_mac(beacon, mac_addr)
    /\ ev' = [NoEv EXCEPT !.op = "app_nvs__set_authorized_mac",
                          !.rec = [NoRec EXCEPT !.bda = mac_addr]]
    /\ hist' = [hist EXCEPT !.mac_set = TRUE]
    /\ UNCHANGED <<boot, scanVars, smootherVars, beacon_battery_low, taskVars, pwm,
                   last_req, failed, seen_since_reset, n_adv, recent_rssi>>

\* app_main: err = app_pwm__init()
MainPwmInit ==
    /\ boot = "pwm"
    /\ boot' = "beacon"
    /\ pwm' = app_pwm__init(pwm)
    /\ ev' = [NoEv EXCEPT !.op = "app_pwm__init", !.closes = 1]
    /\ UNCHANGED <<scanVars, beacon, smootherVars, beacon_battery_low, taskVars,
                   last_req, hist, failed, seen_since_reset, n_adv, recent_rssi>>

\* app_main: err = app_beacon__init(); a failure restarts the process
MainBeaconInit(out) ==
    /\ boot = "beacon"
    /\ LET c == app_beacon__init(scan_status, out) IN
        /\ boot' = IF c.err = ESP_OK THEN "done" ELSE "restart"
        /\ scan_status' = c.status
        /\ inflight' = inflight \o c.queued
        /\ check_pc' = CreateCheckTask(c.task)
        /\ failed' = (failed \/ c.err # ESP_OK)
        /\ hist' = CountBringUp(hist, scan_status, c)
        /\ ev' = ScanEv("app_beacon__init", TRUE, c, Len(inflight))
    /\ UNCHANGED <<hw_scanning, beacon, smootherVars, beacon_battery_low,
                   time_to_wait_before_check, beacon_times_seen_prev, times_seen_reg,
                   cycle, decay, pwm, last_req, seen_since_reset, n_adv, recent_rssi>>

\* app_error_handling__restart: esp_restart() brings every static back to its initializer
Restart ==
    /\ boot = "restart"
    /\ boot' = "nvs"
    /\ scan_status' = ble_scan_uninit
    /\ inflight' = <<>>
    /\ hw_scanning' = FALSE
    /\ beacon' = [auth_mac |-> <<0, 0, 0, 0, 0, 0>>, found |-> 0, times_seen |-> 0]
    /\ rssi_moving_avg_samples' = [i \in 0..(RSSI_MOVING_AVG_NUM_OF_SAMPLES - 1) |-> 0]
    /\ rssi_moving_avg_samples_index' = 0
    /\ rssi_moving_avg_ready' = 0
    /\ rssi_moving_avg_result_prev8' = 0
    /\ beacon_battery_low' = 0
    /\ check_pc' = "none"
    /\ time_to_wait_before_check' = TIME_BEFORE_BEACON_LOST_CHECK_INIT_VAL_MS
    /\ beacon_times_seen_prev' = 0
    /\ times_seen_reg' = 0
    /\ pwm' = [duty |-> PWM_DUTY_INIT, timer_running |-> FALSE, pause_pc |-> "none",
              wait_ms |-> 0, age_ms |-> 0]
    /\ last_req' = "none"
    /\ hist' = NoHist
    /\ failed' = FALSE
    /\ seen_since_reset' = 0
    /\ cycle' = NoCycle
    /\ decay' = NoDecay
    /\ n_adv' = 0
    /\ recent_rssi' = <<>>
    /\ ev' = NoEv

----------------------------------------------------------------------------
(* External requests *)

\* history: "none" before any request, "start" or "stop" for the most recent request
\* when every request so far was made on an initialized scanner, "early" once a
\* request has been made while the scanner was still Uninit or Initializing
LastRequest(prev, st, req) ==
    IF prev = "early" \/ st \in {ble_scan_uninit, ble_scan_initialing}
    THEN "early"
    ELSE req

\* A collaborator calls app_beacon__ble_scan_start()
BleScanStart(out, hw_ok) ==
    /\ boot = "done"
    /\ Len(inflight) < MaxInflight
    /\ LET c == app_beacon__ble_scan_start(scan_status, out, hw_ok) IN
        /\ scan_status' = c.status
        /\ inflight' = inflight \o c.queued
        /\ check_pc' = CreateCheckTask(c.task)
        /\ failed' = (failed \/ c.err # ESP_OK)
        /\ hist' = CountBringUp(RecordCall(hist, "start"), scan_status, c)
        /\ ev' = ScanEv("app_beacon__ble_scan_start", TRUE, c, Len(inflight))
    /\ last_req' = LastRequest(last_req, scan_status, "start")
    /\ UNCHANGED <<boot, hw_scanning, beacon, smootherVars, beacon_battery_low,
                   time_to_wait_before_check, beacon_times_seen_prev, times_seen_reg,
                   cycle, decay, pwm, seen_since_reset, n_adv, recent_rssi>>

\* A collaborator calls app_beacon__ble_scan_stop()
BleScanStop(hw_ok) ==
    /\ boot = "done"
    /\ Len(inflight) < MaxInflight
    /\ LET c == app_beacon__ble_scan_stop(scan_status, hw_ok) IN
        /\ scan_status' = c.status
        /\ inflight' = inflight \o c.queued
        /\ failed' = (failed \/ c.err # ESP_OK)
        /\ hist' = RecordCall(hist, "stop")
        /\ ev' = ScanEv("app_beacon__ble_scan_stop", TRUE, c, Len(inflight))
    /\ last_req' = LastRequest(last_req, scan_status, "stop")
    /\ UNCHANGED <<boot, hw_scanning, beacon, smootherVars, beacon_battery_low,
                   taskVars, pwm, seen_since_reset, n_adv, recent_rssi>>

----------------------------------------------------------------------------
(* Completion events delivered to app_beacon__ble_gap_cb *)

\* mutant: the handler records Off and leaves the start to a later request
GapScanParamSetComplete_NoStart(ok, out, hw_ok) ==
    /\ inflight # <<>>
    /\ Head(inflight) = "param_set"
    /\ LET st1 == IF scan_status # ble_scan_stop_pending THEN ble_scan_off ELSE scan_status
           c == IF ok THEN Call(st1, ESP_OK, <<>>, <<>>, FALSE)
                      ELSE Call(ble_scan_uninit, ESP_OK, <<>>, <<>>, FALSE)
       IN
        /\ scan_status' = c.status
        /\ inflight' = Tail(inflight) \o c.queued
        /\ check_pc' = CreateCheckTask(c.task)
        /\ failed' = (failed \/ ~ok \/ c.err # ESP_OK)
        /\ ev' = ScanEv("param_set_complete", ok, c, Len(inflight) - 1)
    /\ UNCHANGED <<boot, hw_scanning, beacon, smootherVars, beacon_battery_low,
                   time_to_wait_before_check, beacon_times_seen_prev, times_seen_reg,
                   cycle, decay, pwm, last_req, hist, seen_since_reset, n_adv, recent_rssi>>

\* case ESP_GAP_BLE_SCAN_PARAM_SET_COMPLETE_EVT
GapScanParamSetComplete(ok, out, hw_ok) ==
    /\ inflight # <<>>
    /\ Head(inflight) = "param_set"
    /\ LET st1 == IF scan_status # ble_scan_stop_pending THEN ble_scan_off ELSE scan_status
           c == IF ok THEN app_beacon__ble_scan_start(st1, out, hw_ok)
                      ELSE Call(ble_scan_uninit, ESP_OK, <<>>, <<>>, FALSE)
       IN
        /\ scan_status' = c.status
        /\ inflight' = Tail(inflight) \o c.queued
        /\ check_pc' = CreateCheckTask(c.task)
        /\ failed' = (failed \/ ~ok \/ c.err # ESP_OK)
        /\ ev' = ScanEv("param_set_complete", ok, c, Len(inflight) - 1)
    /\ UNCHANGED <<boot, hw_scanning, beacon, smootherVars, beacon_battery_low,
                   time_to_wait_before_check, beacon_times_seen_prev, times_seen_reg,
                   cycle, decay, pwm, last_req, hist, seen_since_reset, n_adv, recent_rssi>>

\* case ESP_GAP_BLE_SCAN_START_COMPLETE_EVT
GapScanStartComplete(ok, hw_ok) ==
    /\ inflight # <<>>
    /\ Head(inflight) = "start"
    /\ LET c == IF ~ok THEN Call(ble_scan_off, ESP_OK, <<>>, <<>>, FALSE)
                ELSE IF scan_status = ble_scan_stop_pending
                THEN app_beacon__ble_scan_stop(ble_scan_on, hw_ok)
                ELSE Call(ble_scan_on, ESP_OK, <<>>, <<>>, FALSE)
       IN
        /\ scan_status' = c.status
        /\ inflight' = Tail(inflight) \o c.queued
        /\ failed' = (failed \/ ~ok \/ c.err # ESP_OK)
        /\ ev' = ScanEv("scan_start_complete", ok, c, Len(inflight) - 1)
    /\ hw_scanning' = (hw_scanning \/ ok)
    /\ UNCHANGED <<boot, beacon, smootherVars, beacon_battery_low, taskVars, pwm,
                   last_req, hist, seen_since_reset, n_adv, recent_rssi>>

\* mutant: a failed scan-stop completion sends the stop command again
GapScanStopComplete_Retries(ok, out, hw_ok) ==
    /\ inflight # <<>>
    /\ Head(inflight) = "stop"
    /\ LET c == IF ~ok THEN app_beacon__ble_scan_stop(ble_scan_on, hw_ok)
                ELSE IF scan_status = ble_scan_start_pending
                THEN app_beacon__ble_scan_start(ble_scan_off, out, hw_ok)
                ELSE Call(ble_scan_off, ESP_OK, <<>>, <<>>, FALSE)
       IN
        /\ scan_status' = c.status
        /\ inflight' = Tail(inflight) \o c.queued
        /\ check_pc' = CreateCheckTask(c.task)
        /\ failed' = (failed \/ ~ok \/ c.err # ESP_OK)
        /\ ev' = ScanEv("scan_stop_complete", ok, c, Len(inflight) - 1)
    /\ hw_scanning' = (hw_scanning /\ ~ok)
    /\ UNCHANGED <<boot, beacon, smootherVars, beacon_battery_low,
                   time_to_wait_before_check, beacon_times_seen_prev, times_seen_reg,
                   cycle, decay, pwm, last_req, hist, seen_since_reset, n_adv, recent_rssi>>

\* case ESP_GAP_BLE_SCAN_STOP_COMPLETE_EVT
GapScanStopComplete(ok, out, hw_ok) ==
    /\ inflight # <<>>
    /\ Head(inflight) = "stop"
    /\ LET c == IF ~ok THEN Call(ble_scan_on, ESP_OK, <<>>, <<>>, FALSE)
                ELSE IF scan_status = ble_scan_start_pending
                THEN app_beacon__ble_scan_start(ble_scan_off, out, hw_ok)
                ELSE Call(ble_scan_off, ESP_OK, <<>>, <<>>, FALSE)
       IN
        /\ scan_status' = c.status
        /\ inflight' = Tail(inflight) \o c.queued
        /\ check_pc' = CreateCheckTask(c.task)
        /\ failed' = (failed \/ ~ok \/ c.err # ESP_OK)
        /\ ev' = ScanEv("scan_stop_complete", ok, c, Len(inflight) - 1)
    /\ hw_scanning' = (hw_scanning /\ ~ok)
    /\ UNCHANGED <<boot, beacon, smootherVars, beacon_battery_low,
                   time_to_wait_before_check, beacon_times_seen_prev, times_seen_reg,
                   cycle, decay, pwm, last_req, hist, seen_since_reset, n_adv, recent_rssi>>

----------------------------------------------------------------------------
(* Advertisement filter, signal smoother and debounce of app_beacon__ble_gap_cb *)

ESP_GAP_SEARCH_INQ_RES_EVT == "ESP_GAP_SEARCH_INQ_RES_EVT"
ESP_GAP_SEARCH_INQ_CMPL_EVT == "ESP_GAP_SEARCH_INQ_CMPL_EVT"

\* C arrays are indexed from 0, sequences from 1
At(a, k) == a[k + 1]

\* mutant: the last byte of the address is not compared
MacMatches_FiveBytes(auth_mac, bda) ==
    \A k \in 0..4 : At(auth_mac, k) = At(bda, k)

\* SCAN_FILTER_MAC: the six comparisons of beacon.auth_mac[k] with bda[k]
MacMatches(auth_mac, bda) ==
    /\ At(auth_mac, 0) = At(bda, 0)
    /\ At(auth_mac, 1) = At(bda, 1)
    /\ At(auth_mac, 2) = At(bda, 2)
    /\ At(auth_mac, 3) = At(bda, 3)
    /\ At(auth_mac, 4) = At(bda, 4)
    /\ At(auth_mac, 5) = At(bda, 5)

\* SCAN_FILTER_EDD_TLM: the twelve comparisons of ble_adv[0..11]
IsEddystoneTlm(ble_adv) ==
    /\ At(ble_adv, 0) = 2
    /\ At(ble_adv, 1) = 1
    /\ At(ble_adv, 2) = 6
    /\ At(ble_adv, 3) = 3
    /\ At(ble_adv, 4) = 3
    /\ At(ble_adv, 5) = 170
    /\ At(ble_adv, 6) = 254
    /\ At(ble_adv, 7) = 17
    /\ At(ble_adv, 8) = 22
    /\ At(ble_adv, 9) = 170
    /\ At(ble_adv, 10) = 254
    /\ At(ble_adv, 11) = 32

\* mutant: SCAN_FILTER_MAC compiled out
FilterAccepts_NoMac(auth_mac, rec) ==
    /\ rec.search_evt = ESP_GAP_SEARCH_INQ_RES_EVT
    /\ IsEddystoneTlm(rec.ble_adv)

\* the condition of the two nested ifs guarding the handling of a scan result
FilterAccepts(auth_mac, rec) ==
    /\ rec.search_evt = ESP_GAP_SEARCH_INQ_RES_EVT
    /\ MacMatches(auth_mac, rec.bda)
    /\ IsEddystoneTlm(rec.ble_adv)

RECURSIVE SumSamples(_, _)
\* for (i = 0; i < RSSI_MOVING_AVG_NUM_OF_SAMPLES; i++) result += samples[i]
SumSamples(samples, n) ==
    IF n = 0 THEN 0 ELSE SumSamples(samples, n - 1) + samples[n - 1]

\* the slew clamp; m8 and prev8 are the mean and the previous result, times 8
ClampToPrev(m8, prev8) ==
    IF prev8 # 0
    THEN IF m8 > prev8 + 8 * MAX_RSSI_STEP THEN prev8 + 8 * MAX_RSSI_STEP
         ELSE IF m8 < prev8 - 8 * MAX_RSSI_STEP THEN prev8 - 8 * MAX_RSSI_STEP
         ELSE m8
    ELSE m8

\* mutant: the write index is never brought back to 0
Smooth_NoWrap(samples, index, ready, prev8, rssi) ==
    LET s1 == [k \in DOMAIN samples |-> IF k = index THEN rssi ELSE samples[k]]
        i1 == index + 1
    IN  IF ready = 0 /\ i1 < RSSI_MOVING_AVG_NUM_OF_SAMPLES - 1
        THEN [samples |-> s1, index |-> i1, ready |-> 0, prev8 |-> prev8,
              produced |-> FALSE, result8 |-> 0, mean8 |-> 0]
        ELSE LET m8 == SumSamples(s1, RSSI_MOVING_AVG_NUM_OF_SAMPLES)
                 r8 == ClampToPrev(m8, prev8)
             IN  [samples |-> s1, index |-> i1,
                  ready |-> 1, prev8 |-> r8, produced |-> TRUE, result8 |-> r8,
                  mean8 |-> m8]

\* the moving average: store the sample, advance the index, return early while the
\* window is warming up, else average, clamp, wrap the index and keep the result
Smooth(samples, index, ready, prev8, rssi) ==
    LET s1 == [samples EXCEPT ![index] = rssi]
        i1 == index + 1
    IN  IF ready = 0 /\ i1 < RSSI_MOVING_AVG_NUM_OF_SAMPLES - 1
        THEN [samples |-> s1, index |-> i1, ready |-> 0, prev8 |-> prev8,
              produced |-> FALSE, result8 |-> 0, mean8 |-> 0]
        ELSE LET m8 == SumSamples(s1, RSSI_MOVING_AVG_NUM_OF_SAMPLES)
                 r8 == ClampToPrev(m8, prev8)
             IN  [samples |-> s1,
                  index |-> IF i1 = RSSI_MOVING_AVG_NUM_OF_SAMPLES THEN 0 ELSE i1,
                  ready |-> 1, prev8 |-> r8, produced |-> TRUE, result8 |-> r8,
                  mean8 |-> m8]

\* beacon_bat_mv = (ble_adv[13] << 8) | ble_adv[14]
BeaconBatMv(ble_adv) == At(ble_adv, 13) * 256 + At(ble_adv, 14)

\* app_status__set_beacon_battery_low_status
BatteryLowStatus(ble_adv) == IF BeaconBatMv(ble_adv) < BEACON_BAT_LOW_MV THEN 1 ELSE 0

\* if (rssi_moving_avg_result >= MIN_RSSI_FOR_DETECTION_DBM)
Qualifies(result8) == result8 >= 8 * MIN_RSSI_FOR_DETECTION_DBM

\* mutant: the counter is incremented without the test against MAX_TIMES_SEEN
CountSighting_Uncapped(times_seen) == (times_seen + 1) % 65536

\* if (beacon.times_seen < MAX_TIMES_SEEN) beacon.times_seen++
CountSighting(times_seen) ==
    IF times_seen < MAX_TIMES_SEEN THEN times_seen + 1 ELSE times_seen

\* mutant: two sightings are enough
Detects_TwoSightings(found, times_seen) ==
    found = 0 /\ times_seen >= MIN_TIMES_SEEN_FOR_DETECTION - 1

\* mutant: beacon.found is not tested
Detects_IgnoresFound(found, times_seen) ==
    times_seen >= MIN_TIMES_SEEN_FOR_DETECTION

\* if (!beacon.found) if (beacon.times_seen >= MIN_TIMES_SEEN_FOR_DETECTION)
Detects(found, times_seen) ==
    found = 0 /\ times_seen >= MIN_TIMES_SEEN_FOR_DETECTION

\* vTaskResume(app_beacon__beacon_check_task_handle): acts on a suspended task only
ResumeCheckTask(pc) ==
    CASE pc = "susp_init" -> "top"
      [] pc = "susp_lost" -> "reset"
      [] OTHER -> pc

Min(a, b) == IF a < b THEN a ELSE b

\* history: the accepted signal strengths, the RSSI_MOVING_AVG_NUM_OF_SAMPLES newest kept
Remember(recent, rssi) ==
    LET all == Append(recent, rssi)
    IN  IF Len(all) > RSSI_MOVING_AVG_NUM_OF_SAMPLES THEN Tail(all) ELSE all

\* case ESP_GAP_BLE_SCAN_RESULT_EVT; max bounds the number of results delivered
GapScanResult(rec, max) ==
    /\ hw_scanning
    /\ n_adv < max
    /\ n_adv' = n_adv + 1
    /\ LET accepted == FilterAccepts(beacon.auth_mac, rec)
           sm == Smooth(rssi_moving_avg_samples, rssi_moving_avg_samples_index,
                        rssi_moving_avg_ready, rssi_moving_avg_result_prev8, rec.rssi)
           handled == accepted /\ sm.produced
           qualifying == handled /\ Qualifies(sm.result8)
           seen1 == IF qualifying THEN CountSighting(beacon.times_seen)
                                  ELSE beacon.times_seen
           detected == qualifying /\ Detects(beacon.found, seen1)
       IN
        /\ rssi_moving_avg_samples' = IF accepted THEN sm.samples ELSE rssi_moving_avg_samples
        /\ rssi_moving_avg_samples_index' =
              IF accepted THEN sm.index ELSE rssi_moving_avg_samples_index
        /\ rssi_moving_avg_ready' = IF accepted THEN sm.ready ELSE rssi_moving_avg_ready
        /\ rssi_moving_avg_result_prev8' =
              IF accepted THEN sm.prev8 ELSE rssi_moving_avg_result_prev8
        /\ beacon_battery_low' =
              IF handled THEN BatteryLowStatus(rec.ble_adv) ELSE beacon_battery_low
        /\ beacon' = [beacon EXCEPT !.times_seen = seen1,
                                    !.found = IF detected THEN 1 ELSE @]
        /\ pwm' = IF detected THEN app_pwm__set_duty_max(pwm) ELSE pwm
        /\ check_pc' = IF detected THEN ResumeCheckTask(check_pc) ELSE check_pc
        /\ seen_since_reset' =
              IF qualifying THEN Min(seen_since_reset + 1, SeenCap)
                            ELSE seen_since_reset
        /\ decay' = IF qualifying THEN NoDecay ELSE decay
        /\ cycle' = IF qualifying /\ check_pc = "delay" THEN [cycle EXCEPT !.fed = TRUE]
                                                        ELSE cycle
        /\ recent_rssi' = IF accepted THEN Remember(recent_rssi, rec.rssi) ELSE recent_rssi
        /\ ev' = [NoEv EXCEPT !.op = "scan_result", !.rec = rec,
                              !.mean8 = IF handled THEN sm.mean8 ELSE 0,
                              !.result8 = IF handled THEN sm.result8 ELSE 0,
                              !.accepted = accepted, !.produced = handled,
                              !.qualifying = qualifying,
                              !.opens = IF detected THEN 1 ELSE 0,
                              !.was_found = beacon.found,
                              !.was_seen = beacon.times_seen,
                              !.was_ready = rssi_moving_avg_ready,
                              !.was_prev8 = rssi_moving_avg_result_prev8,
                              !.was_status = scan_status]
    /\ UNCHANGED <<boot, scanVars, time_to_wait_before_check, beacon_times_seen_prev,
                   times_seen_reg, last_req, hist, failed>>

----------------------------------------------------------------------------
(* app_beacon__beacon_check_task, one action per statement *)

\* history: a run starts when a cycle begins (the read of beacon.times_seen into
\* beacon_times_seen_prev) with presence Present and the counter at MAX_TIMES_SEEN;
\* it records the values the task stores and the close() calls it makes, and is
\* dropped by the next qualifying sighting
StartDecay(d, b) ==
    IF ~d.active /\ b.found # 0 /\ b.times_seen = MAX_TIMES_SEEN
    THEN [active |-> TRUE, stores |-> <<>>, closes |-> 0]
    ELSE d

TaskEv(op) == [NoEv EXCEPT !.op = op, !.was_found = beacon.found,
                           !.was_seen = beacon.times_seen]

\* uint16_t beacon_times_seen_prev = beacon.times_seen
CheckTop ==
    /\ check_pc = "top"
    /\ check_pc' = "delay"
    /\ beacon_times_seen_prev' = beacon.times_seen
    /\ cycle' = [NoCycle EXCEPT !.starved = cycle.starved]
    /\ decay' = StartDecay(decay, beacon)
    /\ ev' = TaskEv("check_top")
    /\ UNCHANGED <<boot, scanVars, beacon, smootherVars, beacon_battery_low,
                   time_to_wait_before_check, times_seen_reg, pwm, last_req, hist, failed,
                   seen_since_reset, n_adv, recent_rssi>>

\* if (beacon.found && (beacon.times_seen - beacon_times_seen_prev == 0) && beacon.times_seen)
MissedCycle(b, prev) ==
    b.found # 0 /\ b.times_seen - prev = 0 /\ b.times_seen # 0

\* vTaskDelay returns and the condition of the if is evaluated; its else branch
\* sets time_to_wait_before_check back to the initial value
CheckWake ==
    /\ check_pc = "delay"
    /\ IF MissedCycle(beacon, beacon_times_seen_prev)
       THEN /\ check_pc' = "dec_load"
            /\ UNCHANGED time_to_wait_before_check
       ELSE /\ check_pc' = "top"
            /\ time_to_wait_before_check' = TIME_BEFORE_BEACON_LOST_CHECK_INIT_VAL_MS
    /\ cycle' = [cycle EXCEPT !.same = (beacon.times_seen = beacon_times_seen_prev),
                              !.starved = @ \/ ~cycle.fed]
    /\ UNCHANGED decay
    /\ ev' = TaskEv("check_wake")
    /\ UNCHANGED <<boot, scanVars, beacon, smootherVars, beacon_battery_low,
                   beacon_times_seen_prev, times_seen_reg, pwm, last_req, hist, failed,
                   seen_since_reset, n_adv, recent_rssi>>

\* beacon.times_seen--: the load
CheckDecLoad ==
    /\ check_pc = "dec_load"
    /\ check_pc' = "dec_store"
    /\ times_seen_reg' = beacon.times_seen
    /\ ev' = TaskEv("check_dec_load")
    /\ UNCHANGED <<boot, scanVars, beacon, smootherVars, beacon_battery_low,
                   time_to_wait_before_check, beacon_times_seen_prev, cycle, decay, pwm,
                   last_req, hist, failed, seen_since_reset, n_adv, recent_rssi>>

\* mutant: one missed cycle clears the counter
Decrement_ToZero(v) == 0

\* mutant: the counter decays two at a time
Decrement_ByTwo(v) == (v - 2) % 65536

\* the uint16_t decrement
Decrement(v) == (v - 1) % 65536

\* beacon.times_seen--: the store
CheckDecStore ==
    /\ check_pc = "dec_store"
    /\ check_pc' = "test"
    /\ beacon' = [beacon EXCEPT !.times_seen = Decrement(times_seen_reg)]
    /\ cycle' = [cycle EXCEPT !.stored = Decrement(times_seen_reg)]
    /\ decay' = IF decay.active
                 THEN [decay EXCEPT !.stores = Append(@, Decrement(times_seen_reg))]
                 ELSE decay
    /\ seen_since_reset' = IF Decrement(times_seen_reg) = 0 THEN 0 ELSE seen_since_reset
    /\ ev' = TaskEv("check_dec_store")
    /\ UNCHANGED <<boot, scanVars, smootherVars, beacon_battery_low,
                   time_to_wait_before_check, beacon_times_seen_prev, times_seen_reg,
                   pwm, last_req, hist, failed, n_adv, recent_rssi>>

\* else if (time_to_wait_before_check >= 750) time_to_wait_before_check -= 500
Shrink(t) ==
    IF t >= TIME_SHRINK_FLOOR_MS
    THEN (t - TIME_BEFORE_BEACON_LOST_CHECK_DECREMENT_MS) % 65536
    ELSE t

\* if (beacon.times_seen == 0) ... else if (...) ...
CheckTest ==
    /\ check_pc = "test"
    /\ IF beacon.times_seen = 0
       THEN /\ check_pc' = "lost"
            /\ UNCHANGED time_to_wait_before_check
       ELSE /\ check_pc' = "top"
            /\ time_to_wait_before_check' = Shrink(time_to_wait_before_check)
    /\ ev' = TaskEv("check_test")
    /\ UNCHANGED <<boot, scanVars, beacon, smootherVars, beacon_battery_low,
                   beacon_times_seen_prev, times_seen_reg, cycle, decay, pwm, last_req, hist,
                   failed, seen_since_reset, n_adv, recent_rssi>>

\* beacon.found = 0
CheckLost ==
    /\ check_pc = "lost"
    /\ check_pc' = "close"
    /\ beacon' = [beacon EXCEPT !.found = 0]
    /\ ev' = TaskEv("check_lost")
    /\ UNCHANGED <<boot, scanVars, smootherVars, beacon_battery_low,
                   time_to_wait_before_check, beacon_times_seen_prev, times_seen_reg,
                   cycle, decay, pwm, last_req, hist, failed, seen_since_reset, n_adv, recent_rssi>>

\* app_pwm__set_duty_min()
CheckClose ==
    /\ check_pc = "close"
    /\ check_pc' = "park"
    /\ pwm' = app_pwm__set_duty_min(pwm)
    /\ decay' = IF decay.active THEN [decay EXCEPT !.closes = @ + 1] ELSE decay
    /\ ev' = [TaskEv("check_close") EXCEPT !.closes = 1]
    /\ UNCHANGED <<boot, scanVars, beacon, smootherVars, beacon_battery_low,
                   time_to_wait_before_check, beacon_times_seen_prev, times_seen_reg,
                   cycle, last_req, hist, failed, seen_since_reset, n_adv, recent_rssi>>

\* vTaskSuspend(NULL)
CheckPark ==
    /\ check_pc = "park"
    /\ check_pc' = "susp_lost"
    /\ ev' = TaskEv("check_park")
    /\ UNCHANGED <<boot, scanVars, beacon, smootherVars, beacon_battery_low,
                   time_to_wait_before_check, beacon_times_seen_prev, times_seen_reg,
                   cycle, decay, pwm, last_req, hist, failed, seen_since_reset, n_adv, recent_rssi>>

\* after the resume: time_to_wait_before_check = TIME_BEFORE_BEACON_LOST_CHECK_INIT_VAL_MS
CheckReset ==
    /\ check_pc = "reset"
    /\ check_pc' = "top"
    /\ time_to_wait_before_check' = TIME_BEFORE_BEACON_LOST_CHECK_INIT_VAL_MS
    /\ ev' = TaskEv("check_reset")
    /\ UNCHANGED <<boot, scanVars, beacon, smootherVars, beacon_battery_low,
                   beacon_times_seen_prev, times_seen_reg, cycle, decay, pwm, last_req, hist,
                   failed, seen_since_reset, n_adv, recent_rssi>>

CheckTaskStep ==
    \/ CheckTop
    \/ CheckWake
    \/ CheckDecLoad
    \/ CheckDecStore
    \/ CheckTest
    \/ CheckLost
    \/ CheckClose
    \/ CheckPark
    \/ CheckReset

----------------------------------------------------------------------------
(* app_pwm__pwm_timer_pause_task *)

\* vTaskDelay(pdMS_TO_TICKS(PWM_TIMER_TIME_TO_PAUSE_MS)) returns
PauseDelayDone ==
    /\ pwm.pause_pc = "delay"
    /\ pwm.wait_ms = 0
    /\ pwm' = [pwm EXCEPT !.pause_pc = "pause"]
    /\ ev' = [NoEv EXCEPT !.op = "pause_delay_done"]
    /\ UNCHANGED <<boot, scanVars, beacon, smootherVars, beacon_battery_low, taskVars,
                   last_req, hist, failed, seen_since_reset, n_adv, recent_rssi>>

\* ledc_timer_pause
PauseTimer ==
    /\ pwm.pause_pc = "pause"
    /\ pwm' = [pwm EXCEPT !.pause_pc = "suspend", !.timer_running = FALSE]
    /\ ev' = [NoEv EXCEPT !.op = "pause_timer"]
    /\ UNCHANGED <<boot, scanVars, beacon, smootherVars, beacon_battery_low, taskVars,
                   last_req, hist, failed, seen_since_reset, n_adv, recent_rssi>>

\* vTaskSuspend(NULL)
PauseSuspend ==
    /\ pwm.pause_pc = "suspend"
    /\ pwm' = [pwm EXCEPT !.pause_pc = "suspended"]
    /\ ev' = [NoEv EXCEPT !.op = "pause_suspend"]
    /\ UNCHANGED <<boot, scanVars, beacon, smootherVars, beacon_battery_low, taskVars,
                   last_req, hist, failed, seen_since_reset, n_adv, recent_rssi>>

PauseTaskStep == PauseDelayDone \/ PauseTimer \/ PauseSuspend

\* time advances by a quarter of the power-saving wait
ClockStepMs == PWM_TIMER_TIME_TO_PAUSE_MS \div 4

Max(a, b) == IF a > b THEN a ELSE b

\* time passes: the running vTaskDelay of the power-saving task gets closer to its
\* end, whatever else is called meanwhile
ClockTick ==
    /\ pwm.pause_pc # "none"
    /\ pwm.age_ms < PWM_TIMER_TIME_TO_PAUSE_MS \/ (pwm.pause_pc = "delay" /\ pwm.wait_ms > 0)
    /\ pwm' = [pwm EXCEPT
                !.wait_ms = IF pwm.pause_pc = "delay" THEN Max(0, @ - ClockStepMs) ELSE @,
                !.age_ms = Min(PWM_TIMER_TIME_TO_PAUSE_MS, @ + ClockStepMs)]
    /\ ev' = [NoEv EXCEPT !.op = "clock_tick"]
    /\ UNCHANGED <<boot, scanVars, beacon, smootherVars, beacon_battery_low, taskVars,
                   last_req, hist, failed, seen_since_reset, n_adv, recent_rssi>>

\* a caller invokes app_pwm__set_duty_max(): open the lid
PwmOpen ==
    /\ pwm.pause_pc # "none"
    /\ pwm' = app_pwm__set_duty_max(pwm)
    /\ ev' = [NoEv EXCEPT !.op = "app_pwm__set_duty_max", !.opens = 1,
                          !.was_duty = pwm.duty]
    /\ UNCHANGED <<boot, scanVars, beacon, smootherVars, beacon_battery_low, taskVars,
                   last_req, hist, failed, seen_since_reset, n_adv, recent_rssi>>

\* a caller invokes app_pwm__set_duty_min(): close the lid
PwmClose ==
    /\ pwm.pause_pc # "none"
    /\ pwm' = app_pwm__set_duty_min(pwm)
    /\ ev' = [NoEv EXCEPT !.op = "app_pwm__set_duty_min", !.closes = 1,
                          !.was_duty = pwm.duty]
    /\ UNCHANGED <<boot, scanVars, beacon, smootherVars, beacon_battery_low, taskVars,
                   last_req, hist, failed, seen_since_reset, n_adv, recent_rssi>>

\* the drive calls of app_pwm__set_duty_min and app_pwm__set_duty_max, in call order
DriveCalls == <<"ledc_set_duty", "ledc_update_duty", "ledc_timer_resume">>

\* mutant: the power-saving task is woken although a drive call failed
PwmSetDutyFails_WakesTask(p, d, fail_at) ==
    [PwmSetDuty(p, d) EXCEPT !.duty = IF fail_at = DriveCalls[1] THEN p.duty ELSE d,
                             !.timer_running = p.timer_running]

\* app_pwm__set_duty_min/max when the drive call fail_at returns an error: the calls
\* before it have been made, the function returns ESP_FAIL at once; ledc_timer_resume
\* and vTaskResume are not reached
PwmSetDutyFails(p, d, fail_at) ==
    [p EXCEPT !.duty = IF fail_at = DriveCalls[1] THEN p.duty ELSE d,
              !.age_ms = 0]

\* a caller invokes app_pwm__set_duty_max() and the drive call fail_at fails
PwmOpenFails(fail_at) ==
    /\ pwm.pause_pc # "none"
    /\ pwm' = PwmSetDutyFails(pwm, PWM_DUTY_MAX, fail_at)
    /\ ev' = [NoEv EXCEPT !.op = "app_pwm__set_duty_max", !.opens = 1,
                          !.was_duty = pwm.duty, !.err = ESP_FAIL, !.fail_at = fail_at]
    /\ UNCHANGED <<boot, scanVars, beacon, smootherVars, beacon_battery_low, taskVars,
                   last_req, hist, failed, seen_since_reset, n_adv, recent_rssi>>

\* a caller invokes app_pwm__set_duty_min() and the drive call fail_at fails
PwmCloseFails(fail_at) ==
    /\ pwm.pause_pc # "none"
    /\ pwm' = PwmSetDutyFails(pwm, PWM_DUTY_MIN, fail_at)
    /\ ev' = [NoEv EXCEPT !.op = "app_pwm__set_duty_min", !.closes = 1,
                          !.was_duty = pwm.duty, !.err = ESP_FAIL, !.fail_at = fail_at]
    /\ UNCHANGED <<boot, scanVars, beacon, smootherVars, beacon_battery_low, taskVars,
                   last_req, hist, failed, seen_since_reset, n_adv, recent_rssi>>

----------------------------------------------------------------------------
InitOutcomes == {"ok", "bringup_fail", "task_fail"}

NextScan ==
    \/ \E stored \in {<<>>} : MainNvsGetData(stored)
    \/ MainPwmInit
    \/ \E out \in InitOutcomes : MainBeaconInit(out)
    \/ Restart
    \/ \E out \in InitOutcomes, hw_ok \in BOOLEAN : BleScanStart(out, hw_ok)
    \/ \E hw_ok \in BOOLEAN : BleScanStop(hw_ok)
    \/ \E ok \in BOOLEAN, out \in InitOutcomes, hw_ok \in BOOLEAN :
          GapScanParamSetComplete(ok, out, hw_ok)
    \/ \E ok \in BOOLEAN, hw_ok \in BOOLEAN : GapScanStartComplete(ok, hw_ok)
    \/ \E ok \in BOOLEAN, out \in InitOutcomes, hw_ok \in BOOLEAN :
          GapScanStopComplete(ok, out, hw_ok)

SpecScan == Init /\ [][NextScan]_vars

\* the scan lifecycle with the scheduler's guarantees: app_main runs on, a restart
\* that was invoked happens, a completion event the controller owes is delivered
FairScan ==
    /\ WF_vars(\E stored \in {<<>>} : MainNvsGetData(stored))
    /\ WF_vars(MainPwmInit)
    /\ WF_vars(\E out \in InitOutcomes : MainBeaconInit(out))
    /\ WF_vars(Restart)
    /\ WF_vars(\E ok \in BOOLEAN, out \in InitOutcomes, hw_ok \in BOOLEAN :
                  GapScanParamSetComplete(ok, out, hw_ok))
    /\ WF_vars(\E ok \in BOOLEAN, hw_ok \in BOOLEAN : GapScanStartComplete(ok, hw_ok))
    /\ WF_vars(\E ok \in BOOLEAN, out \in InitOutcomes, hw_ok \in BOOLEAN :
                  GapScanStopComplete(ok, out, hw_ok))

SpecScanFair == SpecScan /\ FairScan

----------------------------------------------------------------------------
(* Inputs *)

ZeroMac == <<0, 0, 0, 0, 0, 0>>
MacA == <<17, 34, 51, 68, 85, 102>>
MacA5 == <<17, 34, 51, 68, 85, 103>>     \* MacA but for its last byte
MacB == <<18, 34, 51, 68, 85, 102>>      \* MacA but for its first byte

\* an Eddystone-TLM frame: header, version, battery (big endian), temperature
TlmFrame(bat_hi, bat_lo) == EddystoneTlmHeader \o <<0, bat_hi, bat_lo, 25, 128>>
FrameBatOk == TlmFrame(11, 184)                          \* 3000 mV
FrameBatLow == TlmFrame(11, 183)                         \* 2999 mV
FrameBadFlags == [FrameBatOk EXCEPT ![1] = 3]            \* ble_adv[0] differs
FrameUrl == [FrameBatOk EXCEPT ![12] = 16]               \* ble_adv[11]: not a TLM frame

ScanRecord(evt, bda, adv, rssi) ==
    [search_evt |-> evt, bda |-> bda, ble_adv |-> adv, rssi |-> rssi]

FilterRecords ==
    {ScanRecord(e, m, a, -40) :
        e \in {ESP_GAP_SEARCH_INQ_RES_EVT, ESP_GAP_SEARCH_INQ_CMPL_EVT},
        m \in {ZeroMac, MacA, MacA5, MacB},
        a \in {FrameBatOk, FrameBatLow, FrameBadFlags, FrameUrl}}

SmoothRecords ==
    {ScanRecord(ESP_GAP_SEARCH_INQ_RES_EVT, MacA, FrameBatOk, r) : r \in {-80, -40, 0}}

\* -54 dBm: seven such samples and the zero of the eighth slot average to -47.25;
\* an eighth sample of -6 dBm then gives exactly -48, one of -54 dBm gives -49.25
PresenceRecords ==
    {ScanRecord(ESP_GAP_SEARCH_INQ_RES_EVT, MacA, FrameBatOk, r) : r \in {-54, -6}}

\* the records reported while the window warms up all carry the same signal strength
WarmupRecords ==
    {ScanRecord(ESP_GAP_SEARCH_INQ_RES_EVT, MacA, FrameBatOk, -54)}

\* records of two beacons, strong enough to qualify once the window has warmed up
IdentRecords ==
    {ScanRecord(ESP_GAP_SEARCH_INQ_RES_EVT, m, FrameBatOk, -40) : m \in {MacA, MacB}}

\* boot with every bring-up call and every completion succeeding
BootOk(stored) ==
    \/ \E m \in stored : MainNvsGetData(m)
    \/ MainPwmInit
    \/ MainBeaconInit("ok")
    \/ GapScanParamSetComplete(TRUE, "ok", TRUE)
    \/ GapScanStartComplete(TRUE, TRUE)

----------------------------------------------------------------------------
(* Specifications *)

\* the advertisement filter: every kind of record, the identifier changed at run time
NextFilter ==
    \/ BootOk({<<>>, MacA})
    \/ \E m \in {MacA, MacB} : NvsSetAuthorizedMac(m)
    \/ \E rec \in FilterRecords : GapScanResult(rec, MaxAdvFilter)

SpecFilter == Init /\ [][NextFilter]_vars

\* the identifier changed while the scanner is requested on and off and sightings
\* accumulate: every ScanState and both PresenceStates meet a change
NextIdent ==
    \/ BootOk({<<>>, MacA})
    \/ BleScanStart("ok", TRUE)
    \/ BleScanStop(TRUE)
    \/ GapScanParamSetComplete(FALSE, "ok", TRUE)
    \/ GapScanStopComplete(TRUE, "ok", TRUE)
    \/ \E m \in {MacA, MacB} : NvsSetAuthorizedMac(m)
    \/ \E rec \in IdentRecords : GapScanResult(rec, MaxAdvIdent)

SpecIdent == Init /\ [][NextIdent]_vars

\* the signal smoother: accepted records of varying signal strength
NextSmooth ==
    \/ BootOk({MacA})
    \/ \E rec \in SmoothRecords : GapScanResult(rec, MaxAdvSmooth)

SpecSmooth == Init /\ [][NextSmooth]_vars

\* the debounce engine: accepted records interleaved with the loss-check task
NextPresence ==
    \/ BootOk({MacA})
    \/ \E rec \in PresenceRecords :
          /\ rssi_moving_avg_ready = 1 \/ rec \in WarmupRecords
          /\ GapScanResult(rec, MaxAdvPresence)
    \/ CheckTaskStep

SpecPresence == Init /\ [][NextPresence]_vars

\* the lid driver: open() and close() called at any time, the power-saving task, time
NextPwm ==
    \/ \E stored \in {<<>>} : MainNvsGetData(stored)
    \/ MainPwmInit
    \/ PwmOpen
    \/ PwmClose
    \/ PauseTaskStep
    \/ ClockTick

SpecPwm == Init /\ [][NextPwm]_vars

\* the lid driver with drive calls that may return an error
NextPwmFaulty ==
    \/ NextPwm
    \/ \E k \in 1..Len(DriveCalls) : PwmOpenFails(DriveCalls[k])
    \/ \E k \in 1..Len(DriveCalls) : PwmCloseFails(DriveCalls[k])

SpecPwmFaulty == Init /\ [][NextPwmFaulty]_vars

\* the debounce engine with the scheduler's guarantees: the loss-check task, when it
\* is ready to run, does run; a callback handed to the Bluetooth host task is delivered
FairPresence ==
    /\ WF_vars(CheckTaskStep)
    /\ WF_vars(BootOk({MacA}))

SpecPresenceFair == SpecPresence /\ FairPresence

\* the whole system
Next ==
    \/ NextScan
    \/ \E m \in {MacA, MacB} : NvsSetAuthorizedMac(m)
    \/ \E rec \in FilterRecords \cup PresenceRecords : GapScanResult(rec, MaxAdvPresence)
    \/ CheckTaskStep
    \/ PauseTaskStep
    \/ ClockTick

Spec == Init /\ [][Next]_vars

----------------------------------------------------------------------------
(* Claims about the scan lifecycle, checked under SpecScan *)

Settled == inflight = <<>> /\ ~failed

\* C1: once every in-flight completion has been delivered successfully, ScanState
\* matches the most recent request: On after start(), Off after stop().
C1_LastRequestWins ==
    Settled =>
        /\ (last_req = "start" => scan_status = ble_scan_on)
        /\ (last_req = "stop" => scan_status = ble_scan_off)

\* C2: no hardware start-scan or stop-scan command is issued while the completion
\* event of an earlier parameter-set, start-scan or stop-scan command is outstanding.
C2_OneOperationInFlight ==
    (ev.issued # <<>> /\ ev.issued[1] \in {"start", "stop"}) => ev.outstanding = 0

\* C9: stop() while Starting gives StopPending without a hardware command; the
\* successful scan-started completion then invokes stop(), which issues the
\* hardware stop and leaves the handler in Stopping.
C9_StopWhileStarting ==
    /\ (ev.op = "app_beacon__ble_scan_stop" /\ ev.was_status = ble_scan_starting)
          => (scan_status = ble_scan_stop_pending /\ ev.issued = <<>>)
    /\ (ev.op = "scan_start_complete" /\ ev.ok /\ ev.was_status = ble_scan_stop_pending)
          => (scan_status = ble_scan_stopping /\ ev.issued = <<"stop">>)

C9_Witness ==
    /\ ev.op = "scan_start_complete" /\ ev.ok
    /\ ev.was_status = ble_scan_stop_pending
    /\ scan_status = ble_scan_stopping
    /\ ev.issued = <<"stop">>

CompletionHandlers == {"param_set_complete", "scan_start_complete", "scan_stop_complete"}

\* C12: when the handler of a parameter-set, scan-started or scan-stopped completion
\* event has returned, whether the event reported success or failure, ScanState is
\* neither StartPending nor StopPending.
C12_PendingResolvedAtCompletion ==
    ev.op \in CompletionHandlers =>
        scan_status \notin {ble_scan_start_pending, ble_scan_stop_pending}

\* the parameter-set completion arrives while a stop is pending: the handler keeps
\* StopPending and calls start(), which resolves it to Off
C12_Witness ==
    /\ ev.op = "param_set_complete" /\ ev.ok
    /\ ev.was_status = ble_scan_stop_pending
    /\ ev.issued = <<>>
    /\ scan_status = ble_scan_off

\* the last handler was a completion event reporting a failure
FailedCompletion == ev.op \in CompletionHandlers /\ ~ev.ok

\* a failed completion leaves the status it reverts to and sends nothing
RevertedWithoutRetry ==
    ~ev.ok =>
        /\ ev.issued = <<>>
        /\ (ev.op = "param_set_complete" => scan_status = ble_scan_uninit)
        /\ (ev.op = "scan_start_complete" => scan_status = ble_scan_off)
        /\ (ev.op = "scan_stop_complete" => scan_status = ble_scan_on)

\* the request made next is acted upon: start() re-enters the bring-up from Uninit and
\* sends the hardware start from Off, stop() sends the hardware stop from On
AcceptedAfterRevert ==
    FailedCompletion =>
        /\ (ev'.op = "app_beacon__ble_scan_start" /\ scan_status = ble_scan_uninit
                => scan_status' = ble_scan_initialing)
        /\ (ev'.op = "app_beacon__ble_scan_start" /\ scan_status = ble_scan_off
                => scan_status' = ble_scan_starting /\ ev'.issued = <<"start">>)
        /\ (ev'.op = "app_beacon__ble_scan_stop" /\ scan_status = ble_scan_on
                => scan_status' = ble_scan_stopping /\ ev'.issued = <<"stop">>)

\* C21: a failed completion event reverts the machine and is not retried: a failed
\* parameter-set gives Uninit, a failed scan-start gives Off, a failed scan-stop gives
\* On, whatever pending state was recorded, and the handler issues no hardware
\* command; an explicit start() or stop() made next is accepted from that state.
C21_FailureRevertsNoRetry ==
    [][RevertedWithoutRetry' /\ AcceptedAfterRevert]_vars

C21_Witness ==
    /\ ev.op = "scan_stop_complete"
    /\ ~ev.ok
    /\ ev.was_status = ble_scan_start_pending
    /\ scan_status = ble_scan_on
    /\ ev.issued = <<>>

\* app_main's call of app_beacon__init returned an error, or the parameter-set
\* completion event reported one
BringUpFailure ==
    \/ ev.op = "app_beacon__init" /\ ev.err # ESP_OK
    \/ ev.op = "param_set_complete" /\ ~ev.ok

\* app_main is at its call of app_error_handling__restart
RestartInvoked == boot = "restart"

\* C22: a bring-up or parameter-set failure, returned by app_beacon__init or reported
\* by the parameter-set completion event, leads to the restart of the process.
C22_BringUpFailureRestarts == BringUpFailure ~> RestartInvoked

\* the most recent request was a start() that found StopPending with a completion
\* outstanding
StartCancelledStop ==
    /\ hist.call_op = "start"
    /\ hist.call_status = ble_scan_stop_pending
    /\ hist.call_outstanding >= 1

\* C25: start() in StopPending makes ScanState Off without a hardware command; once
\* what was in flight has completed successfully, with no further request, the
\* scanner is On.
C25_StartCancelsPendingStop ==
    /\ (ev.op = "app_beacon__ble_scan_start" /\ ev.was_status = ble_scan_stop_pending)
            => (scan_status = ble_scan_off /\ ev.issued = <<>>)
    /\ (StartCancelledStop /\ Settled) => scan_status = ble_scan_on

C25_Witness ==
    /\ StartCancelledStop
    /\ Settled
    /\ ev.op = "scan_start_complete"
    /\ ev.was_status = ble_scan_off
    /\ scan_status = ble_scan_on

StartIgnoredIn ==
    {ble_scan_on, ble_scan_starting, ble_scan_initialing, ble_scan_start_pending}
StopIgnoredIn ==
    {ble_scan_off, ble_scan_uninit, ble_scan_stopping, ble_scan_start_pending,
     ble_scan_stop_pending}

\* C26: start() in On, Starting, Initializing or StartPending, and stop() in Off,
\* Uninit, Stopping, StartPending or StopPending, leave ScanState as it was, issue no
\* hardware command and return ESP_OK.
C26_RedundantRequestIgnored ==
    (\/ ev.op = "app_beacon__ble_scan_start" /\ ev.was_status \in StartIgnoredIn
     \/ ev.op = "app_beacon__ble_scan_stop" /\ ev.was_status \in StopIgnoredIn)
        => (scan_status = ev.was_status /\ ev.issued = <<>> /\ ev.err = ESP_OK)

C26_Witness ==
    /\ ev.op = "app_beacon__ble_scan_stop"
    /\ ev.was_status = ble_scan_start_pending
    /\ scan_status = ble_scan_start_pending
    /\ ev.outstanding = 1

\* C27: the successful parameter-set completion, when no stop is pending, issues
\* exactly one hardware start and leaves the handler in Starting; when a stop is
\* pending it leaves the handler in Off and issues no hardware command.
C27_ParamSetCompletionStarts ==
    (ev.op = "param_set_complete" /\ ev.ok) =>
        IF ev.was_status = ble_scan_stop_pending
        THEN scan_status = ble_scan_off /\ ev.issued = <<>>
        ELSE scan_status = ble_scan_starting /\ ev.issued = <<"start">>

C27_Witness ==
    /\ ev.op = "param_set_complete"
    /\ ev.ok
    /\ ev.was_status = ble_scan_initialing
    /\ scan_status = ble_scan_starting
    /\ ev.issued = <<"start">>
    /\ inflight = <<"start">>

\* C28: since the process started, the controller and stack bring-up of
\* app_beacon__init has run at most once and the loss-check task has been created
\* at most once.
C28_BringUpOnce == hist.bringups <= 1 /\ hist.tasks <= 1

Transitional ==
    {ble_scan_initialing, ble_scan_starting, ble_scan_stopping, ble_scan_start_pending,
     ble_scan_stop_pending}

\* C35: while the process runs on (app_main is not about to restart it), a transitional
\* ScanState has the completion event of a hardware operation outstanding.
C35_TransitionalHasCompletionDue ==
    (boot # "restart" /\ scan_status \in Transitional) => inflight # <<>>

----------------------------------------------------------------------------
(* Claims about the debounce engine, checked under SpecPresence *)

Present == beacon.found # 0
NotPresent == beacon.found = 0
ScanResultStep == ev'.op = "scan_result" /\ n_adv' = n_adv + 1

C4_LossOnlyByDecay ==
    [][ /\ (Present /\ NotPresent') =>
              (ev'.op = "check_lost" /\ cycle.same /\ cycle.stored = 0)
        /\ (beacon'.times_seen < beacon.times_seen) =>
              /\ ev'.op = "check_dec_store" /\ cycle.same
              /\ beacon'.times_seen = beacon.times_seen - 1 ]_vars

PwmInitialized == pwm.pause_pc # "none"
CheckTaskIdle == check_pc \in {"none", "susp_init", "delay", "susp_lost"}

\* C5: whenever neither the advertisement callback nor a loss-check step is
\* mid-execution, the last actuator command issued is open (duty max) if
\* PresenceState is Present and close (duty min) if it is NotPresent.
C5_ActuatorFollowsPresence ==
    (PwmInitialized /\ CheckTaskIdle) =>
        /\ (Present => pwm.duty = PWM_DUTY_MAX)
        /\ (NotPresent => pwm.duty = PWM_DUTY_MIN)

LossBranchEntered == check_pc \in {"close", "park", "susp_lost"}
CloseDone == check_pc \in {"park", "susp_lost"}

C13_ZeroCounterNotPresent ==
    beacon.times_seen = 0 => NotPresent

CheckTaskParked == check_pc \in {"susp_init", "susp_lost"}

\* C18: after the advertisement callback has handled a qualifying sighting, whether
\* or not it made presence Present, the loss-check task is not suspended.
C18_SightingWakesLossCheck ==
    (ev.op = "scan_result" /\ ev.qualifying) => ~CheckTaskParked

\* C19: from NotPresent with counter 1 or 2, unless another scan result is delivered,
\* the counter eventually returns to 0.
C19_PartialCountDecays ==
    \A k \in 0..MaxAdvPresence :
        (NotPresent /\ beacon.times_seen \in {1, 2} /\ n_adv = k)
            ~> (beacon.times_seen = 0 \/ n_adv # k)

\* C24: from Present, unless another scan result is delivered, presence eventually
\* becomes NotPresent with the lid commanded closed.
C24_PresentEventuallyLost ==
    \A k \in 0..MaxAdvPresence :
        (Present /\ n_adv = k)
            ~> ((NotPresent /\ pwm.duty = PWM_DUTY_MIN) \/ n_adv # k)

\* the statements of the loss-check task between its evaluation of the condition after
\* the wait and its vTaskSuspend
MidCheckStep == check_pc \in {"dec_load", "dec_store", "test", "lost", "close", "park"}

\* what each statement of the check step finds when the step runs atomically: the
\* shared variables as the previous statement of the task left them
AsLeftByTask ==
    /\ check_pc = "dec_store" => beacon.times_seen = times_seen_reg
    /\ check_pc = "test" => beacon.times_seen = cycle.stored
    /\ check_pc = "lost" => (beacon.times_seen = 0 /\ Present)
    /\ check_pc = "close" => (beacon.times_seen = 0 /\ NotPresent)
    /\ check_pc = "park" =>
          (beacon.times_seen = 0 /\ NotPresent /\ pwm.duty = PWM_DUTY_MIN)

\* C20: no advertisement callback runs between the loss-check task's read of the
\* counter after its wait and the end of its update (decrement, NotPresent, close,
\* park), and every interleaving leaves the counter, presence and actuator as the
\* atomic execution of that check step does.
C20_CheckStepAtomic ==
    [][ /\ ScanResultStep => ~MidCheckStep
        /\ AsLeftByTask' ]_vars

\* C34: the sightings counter is between 0 and 4 in every reachable state, the
\* value held for the task's decrement included: no underflow of the uint16_t, no
\* value above the cap.
C34_CounterCapped ==
    /\ beacon.times_seen \in 0..4
    /\ check_pc = "dec_store" => times_seen_reg \in 1..4

\* a sighting at the cap arrives between the load and the store of the decrement
C34_Witness ==
    /\ ev.op = "scan_result"
    /\ ev.qualifying
    /\ ev.was_seen = 4
    /\ beacon.times_seen = 4
    /\ check_pc = "dec_store"
    /\ times_seen_reg = 4

\* C36: in no reachable state is presence Present while the loss-check task is
\* suspended.
C36_NoLostWakeUp == Present => ~CheckTaskParked

WaitArmed == check_pc \in {"top", "delay"}

\* C29: every wait of the loss-check loop lasts between the 750 ms floor and the
\* initial 1000 ms.
C29_WaitWithinFloor ==
    WaitArmed =>
        /\ time_to_wait_before_check >= TIME_SHRINK_FLOOR_MS
        /\ time_to_wait_before_check <= TIME_BEFORE_BEACON_LOST_CHECK_INIT_VAL_MS

\* the wait ends and the task finds the counter different from the value it read
\* before the wait
WakeOnChangedCounter ==
    /\ check_pc = "delay"
    /\ ev'.op = "check_wake"
    /\ beacon.times_seen # beacon_times_seen_prev

\* C30: a loss-check cycle during whose wait the counter changed leaves the counter,
\* presence and the lid as they were and keeps the interval it has just used for its
\* next wait.
C30_ChangedCycleKeepsInterval ==
    [][WakeOnChangedCounter =>
            /\ beacon' = beacon
            /\ pwm' = pwm
            /\ check_pc' = "top"
            /\ time_to_wait_before_check' = time_to_wait_before_check]_vars

----------------------------------------------------------------------------
(* Claims about the signal smoother, checked under SpecSmooth *)

Abs(x) == IF x < 0 THEN -x ELSE x

\* C6: once the smoother is warmed up, every smoothed output differs from the
\* immediately preceding smoothed output by at most 2 units, whatever the new sample
\* and whatever the previous output.
C6_SlewBounded ==
    (ev.op = "scan_result" /\ ev.produced /\ ev.was_ready = 1)
        => Abs(rssi_moving_avg_result_prev8 - ev.was_prev8) <= 8 * 2

\* C14: the ready flag becomes true, and the first smoothed value is produced, only
\* by the write of the 8th accepted sample: while the flag is clear the write index
\* counts the samples written so far, so it must be 7 when that write starts.
C14_ReadyAfterFullWindow ==
    [][ (rssi_moving_avg_ready = 0 /\ rssi_moving_avg_ready' = 1) =>
            rssi_moving_avg_samples_index = RSSI_MOVING_AVG_NUM_OF_SAMPLES - 1 ]_vars

\* C38: whenever the handling of an accepted advertisement can begin, the write
\* index of the sample window is one of its 8 slots, 0..7.
C38_WriteIndexInWindow ==
    rssi_moving_avg_samples_index \in 0..7

\* the ninth accepted sample has been written to slot 0 after the wrap-around
C38_Witness ==
    /\ ev.op = "scan_result" /\ ev.accepted
    /\ ev.was_ready = 1
    /\ Len(recent_rssi) = 8
    /\ rssi_moving_avg_samples_index = 1
    /\ rssi_moving_avg_samples[0] = ev.rec.rssi

RECURSIVE SumSeq(_)
SumSeq(q) == IF q = <<>> THEN 0 ELSE Head(q) + SumSeq(Tail(q))

\* C31: every value the smoother computes is, before clamping, the arithmetic mean
\* of the 8 most recently accepted samples (8 times the mean is their sum), and the
\* value it returns is the previous output of the next call.
C31_MeanOfLastEight ==
    (ev.op = "scan_result" /\ ev.produced) =>
        /\ Len(recent_rssi) = RSSI_MOVING_AVG_NUM_OF_SAMPLES
        /\ ev.mean8 = SumSeq(recent_rssi)
        /\ rssi_moving_avg_result_prev8 = ev.result8

----------------------------------------------------------------------------
(* Claims about the lid driver, checked under SpecPwm *)

\* C15: an open() or close() made while the power-saving task is waiting re-arms the
\* wait: when the task's wait ends and it goes on to disable the drive timer, at
\* least 500 ms have passed since the most recent open() or close().
C15_WaitRearmed ==
    ev.op = "pause_delay_done" => pwm.age_ms >= PWM_TIMER_TIME_TO_PAUSE_MS

\* C16: after a successful open() or close() followed by no other, the power-saving
\* task eventually disables the drive timer.  Once the task is suspended only a new
\* open() or close() resumes it, so the timer must be off whenever it is suspended.
C16_TimerPausedWhenParked ==
    pwm.pause_pc = "suspended" => ~pwm.timer_running

notPwmVars == <<boot, scanVars, beacon, smootherVars, beacon_battery_low, taskVars,
                last_req, hist, failed, seen_since_reset, n_adv, recent_rssi>>

\* C17: open() on a lid whose last command was open, and close() on one whose last
\* command was close, write the same duty again and leave the commanded position as
\* it was; nothing but the drive timer and the power-saving task is affected.
C17_ActuationIdempotent ==
    [][ /\ (ev'.op = "app_pwm__set_duty_max" /\ pwm.duty = PWM_DUTY_MAX) =>
              (pwm'.duty = pwm.duty /\ pwm'.timer_running /\ UNCHANGED notPwmVars)
        /\ (ev'.op = "app_pwm__set_duty_min" /\ pwm.duty = PWM_DUTY_MIN) =>
              (pwm'.duty = pwm.duty /\ pwm'.timer_running /\ UNCHANGED notPwmVars) ]_vars

\* open() called on an open lid whose drive timer the task had already disabled
C17_Witness ==
    /\ ev.op = "app_pwm__set_duty_max"
    /\ ev.was_duty = PWM_DUTY_MAX
    /\ pwm.duty = PWM_DUTY_MAX
    /\ pwm.pause_pc = "delay" /\ pwm.wait_ms = PWM_TIMER_TIME_TO_PAUSE_MS

PwmCallStep == ev'.op \in {"app_pwm__set_duty_max", "app_pwm__set_duty_min"}

\* the duty the call was to write
CommandedDuty(op) == IF op = "app_pwm__set_duty_max" THEN 78000 ELSE 26214

\* C33: open() and close() return failure exactly when one of the three drive calls
\* fails; a failing call ends the function: the later drive calls are not made (the
\* duty is not written after a failed set-duty, the timer is not resumed) and the
\* power-saving task is not woken; a call that succeeds has written the duty, resumed
\* the timer and woken the task.
C33_DriveFailureReported ==
    [][PwmCallStep =>
        /\ (ev'.err = ESP_OK) = (ev'.fail_at = "none")
        /\ ev'.err \in {ESP_OK, ESP_FAIL}
        /\ ev'.fail_at # "none" =>
              /\ pwm'.pause_pc = pwm.pause_pc
              /\ pwm'.wait_ms = pwm.wait_ms
              /\ pwm'.timer_running = pwm.timer_running
              /\ (ev'.fail_at = "ledc_set_duty" => pwm'.duty = pwm.duty)
        /\ ev'.fail_at = "none" =>
              /\ pwm'.duty = CommandedDuty(ev'.op)
              /\ pwm'.timer_running
              /\ pwm'.pause_pc # "suspended"
       ]_vars

\* close() fails at ledc_timer_resume on an open lid whose timer had been disabled
C33_Witness ==
    /\ ev.op = "app_pwm__set_duty_min"
    /\ ev.err = ESP_FAIL
    /\ ev.fail_at = "ledc_timer_resume"
    /\ ev.was_duty = PWM_DUTY_MAX
    /\ pwm.pause_pc = "suspended"
    /\ ~pwm.timer_running

----------------------------------------------------------------------------
(* Claims about the advertisement filter, checked under SpecFilter *)

\* the fixed header 02 01 06 03 03 aa fe 11 16 aa fe 20
ClaimedHeader == <<2, 1, 6, 3, 3, 170, 254, 17, 22, 170, 254, 32>>

ShouldAccept(rec, auth_mac) ==
    /\ rec.search_evt = ESP_GAP_SEARCH_INQ_RES_EVT
    /\ rec.bda = auth_mac
    /\ SubSeq(rec.ble_adv, 1, 12) = ClaimedHeader

ReachesSmoother ==
    /\ rssi_moving_avg_samples_index' # rssi_moving_avg_samples_index
    /\ rssi_moving_avg_samples'[rssi_moving_avg_samples_index] = ev'.rec.rssi

\* C7: a scan-result record reaches the smoother if and only if it is a
\* discovery-type event, all 6 bytes of its source address equal the authorized
\* identifier and its first 12 payload bytes equal the fixed header; any other
\* record is dropped.
C7_AcceptIffAuthorizedTlm ==
    [][ ScanResultStep =>
           /\ ReachesSmoother <=> ShouldAccept(ev'.rec, beacon.auth_mac)
           /\ ~ShouldAccept(ev'.rec, beacon.auth_mac) =>
                 UNCHANGED <<smootherVars, beacon, beacon_battery_low, pwm>> ]_vars

\* a record accepted against an identifier set at run time, after one was dropped
C7_Witness ==
    /\ ev.op = "scan_result" /\ ev.accepted
    /\ beacon.auth_mac = MacB /\ ev.rec.bda = MacB
    /\ rssi_moving_avg_samples_index = 1 /\ n_adv = 2

\* C8: an advertisement whose source address differs from the authorized identifier,
\* even with a valid header payload, leaves the sample window, its write index, the
\* ready flag, the previous smoothed value, the sightings counter, PresenceState,
\* the beacon-battery status and the actuator unchanged.
C8_ForeignAddressNoEffect ==
    [][ ( /\ ScanResultStep
          /\ ev'.rec.search_evt = ESP_GAP_SEARCH_INQ_RES_EVT
          /\ ev'.rec.bda # beacon.auth_mac
          /\ SubSeq(ev'.rec.ble_adv, 1, 12) = ClaimedHeader )
        => UNCHANGED <<rssi_moving_avg_samples, rssi_moving_avg_samples_index,
                       rssi_moving_avg_ready, rssi_moving_avg_result_prev8,
                       beacon, beacon_battery_low, pwm>> ]_vars

\* a foreign record with a low-battery frame arrives once the smoother is ready, so
\* that an accepted record would have changed the window, the counter and the status
C8_Witness ==
    /\ ev.op = "scan_result" /\ ~ev.accepted
    /\ ev.rec.search_evt = ESP_GAP_SEARCH_INQ_RES_EVT
    /\ ev.rec.bda # beacon.auth_mac
    /\ ev.rec.ble_adv = FrameBatLow
    /\ rssi_moving_avg_ready = 1
    /\ beacon_battery_low = 0

\* the big-endian 16-bit value of payload bytes 13 and 14
ClaimedBatteryMv(ble_adv) == ble_adv[14] * 256 + ble_adv[15]

\* C32: after the callback has handled an accepted advertisement, the beacon-battery-low
\* status is 1 if the battery value of the payload is below 3000 and 0 otherwise,
\* whether or not the smoother is ready.
C32_BatteryStatusFollowsPayload ==
    (ev.op = "scan_result" /\ ev.accepted) =>
        beacon_battery_low = (IF ClaimedBatteryMv(ev.rec.ble_adv) < 3000 THEN 1 ELSE 0)

\* C39: as long as app_beacon__set_auth_mac has not been called, the filter accepts
\* no advertisement, whatever its source address.
C39_NothingAcceptedBeforeIdentifier ==
    (ev.op = "scan_result" /\ ~hist.mac_set) => ~ev.accepted

----------------------------------------------------------------------------
(* Claims about the authorized identifier, checked under SpecIdent *)

SetAuthMacStep == ev'.op = "app_nvs__set_authorized_mac"

\* C23: app_beacon__set_auth_mac, called in any ScanState and PresenceState, changes
\* the authorized identifier to its argument and nothing else; nothing but it (and
\* boot) changes the identifier, so every advertisement processed after it returns is
\* filtered against the identifier it set.
C23_SetAuthMacOnlyIdentifier ==
    [][/\ SetAuthMacStep =>
            /\ beacon'.auth_mac = ev'.rec.bda
            /\ beacon'.found = beacon.found
            /\ beacon'.times_seen = beacon.times_seen
            /\ UNCHANGED <<boot, scanVars, smootherVars, beacon_battery_low, taskVars, pwm>>
       /\ beacon'.auth_mac # beacon.auth_mac =>
            \/ SetAuthMacStep
            \/ ev'.op = "app_nvs__get_data"
            \/ boot' = "nvs"
       /\ ScanResultStep /\ ev'.accepted => ev'.rec.bda = beacon.auth_mac
      ]_vars

C23_Witness ==
    /\ ev.op = "app_nvs__set_authorized_mac"
    /\ ev.rec.bda = MacB
    /\ beacon.auth_mac = MacB
    /\ Present
    /\ beacon.times_seen = MAX_TIMES_SEEN
    /\ scan_status = ble_scan_stop_pending

=============================================================================
